---- MODULE Spec2Model ----
(***************************************************************************)
(* Map8x32: an in-memory store u8 -> Vec<u32> served over a Unix socket.   *)
(* One Store Actor (command_processor) owns the store and applies the      *)
(* Commands that the Connection Handlers (handle_connection) enqueue on an *)
(* unbounded mpsc channel; every Command carries a oneshot reply channel.  *)
(***************************************************************************)
EXTENDS Naturals, Sequences, FiniteSets, TLC

(* ---------------- program constants (server/src/main.rs:11-19) --------- *)
OP_SET == 1
OP_GET == 2
OP_DELETE_BY_KEY == 3
OP_DELETE_ALL == 4
OP_LIST_ALL == 5

STATUS_NOT_FOUND == 0
STATUS_OK == 1
STATUS_BAD_REQUEST == 2

(* ---------------- bounds of the model ---------------------------------- *)
\* number of connections the accept loop may hand to a handler
NumConns == 2
\* total number of request frames the clients write, over all connections
MaxFrames == 3

\* number of request frames the one-at-a-time client of SpecSeq writes
MaxSeqFrames == 4

\* number of request frames the client of SpecIgn writes
MaxVarFrames == 2

\* frames sent in all by the clients of the small-alphabet specifications
MaxSmallFrames == 3

Conns == 1..NumConns
Keys == {1, 2}
Values == {10, 300}
\* opcodes outside 1..5 that a client may send
UnknownOps == {9}

(* ---------------- Frame codec ------------------------------------------ *)
\* u32::to_le_bytes / write_u32_le: the four bytes, least significant first
U32LE(v) ==
  <<v % 256, (v \div 256) % 256, (v \div 65536) % 256, (v \div 16777216) % 256>>

\* u32::from_le_bytes
FromLE(b) == b[1] + 256 * b[2] + 65536 * b[3] + 16777216 * b[4]

\* the 6-byte request frame the client builds
Frame(op, key, value) == <<op, key>> \o U32LE(value)

\* the frames the benchmark client writes: SET carries a value, the other
\* operations are sent with value 0, DELETE_ALL / LIST_ALL with key 0;
\* UnknownOps stands for the unrecognised opcodes
ClientFrames ==
  {Frame(OP_SET, k, v) : k \in Keys, v \in Values}
    \cup {Frame(op, k, 0) : op \in {OP_GET, OP_DELETE_BY_KEY}, k \in Keys}
    \cup {Frame(op, 0, 0) : op \in {OP_DELETE_ALL, OP_LIST_ALL} \cup UnknownOps}

(* ---------------- Commands and responses ------------------------------- *)
\* enum Command: the fields a variant does not carry are 0; conn and id name
\* the oneshot channel (respond_to) created for the command
NoCmd == [op |-> 0, key |-> 0, value |-> 0, conn |-> 0, id |-> 0]

\* mutant: every Command keeps the key and value bytes of its frame
MakeCommandKeepFields(op, key, value, c, i) ==
  [op |-> op, key |-> key, value |-> value, conn |-> c, id |-> i]

\* handle_connection's match on the opcode: which Command a frame becomes
MakeCommand(op, key, value, c, i) ==
  IF op = OP_SET THEN [op |-> OP_SET, key |-> key, value |-> value, conn |-> c, id |-> i]
  ELSE IF op = OP_GET THEN [op |-> OP_GET, key |-> key, value |-> 0, conn |-> c, id |-> i]
  ELSE IF op = OP_DELETE_BY_KEY
    THEN [op |-> OP_DELETE_BY_KEY, key |-> key, value |-> 0, conn |-> c, id |-> i]
  ELSE [op |-> op, key |-> 0, value |-> 0, conn |-> c, id |-> i]

\* mutant: only the lower end of the opcode range is checked
RecognisedLoose(op) == op >= OP_SET

Recognised(op) ==
  op \in {OP_SET, OP_GET, OP_DELETE_BY_KEY, OP_DELETE_ALL, OP_LIST_ALL}

\* what travels over a oneshot channel: a status byte (u8), a GetResponse or
\* a ListAllResponse
NoReply == [kind |-> "none"]
StatusReply(s) == [kind |-> "status", status |-> s]
Found(values) == [kind |-> "get", found |-> TRUE, values |-> values]
NotFound == [kind |-> "get", found |-> FALSE, values |-> <<>>]
ListAllResponse(entries) == [kind |-> "list", entries |-> entries]

(* ---------------- the store (DashMap<u8, Vec<u32>>) -------------------- *)
\* a store is a function from the present keys to their value sequences
EmptyStore == [k \in {} |-> <<>>]

\* mutant: the entry is replaced by a new Vec even when the key is present
OrInsertFresh(store, key) ==
  [k \in DOMAIN store \cup {key} |-> IF k = key THEN <<>> ELSE store[k]]

\* storage.entry(key).or_insert_with(Vec::new)
OrInsertEmpty(store, key) ==
  [k \in DOMAIN store \cup {key} |-> IF k \in DOMAIN store THEN store[k] ELSE <<>>]

\* mutant: the value replaces the sequence instead of extending it
PushReplace(store, key, value) ==
  [k \in DOMAIN store |-> IF k = key THEN <<value>> ELSE store[k]]

\* mutant: the value is put at the front of the sequence
PushFront(store, key, value) ==
  [k \in DOMAIN store |-> IF k = key THEN <<value>> \o store[k] ELSE store[k]]

\* mutant: the value is pushed onto every present key
PushEvery(store, key, value) ==
  [k \in DOMAIN store |-> Append(store[k], value)]

\* mutant: a value the sequence already holds is not added again
PushUnique(store, key, value) ==
  [k \in DOMAIN store |->
     IF k = key /\ \A i \in 1..Len(store[k]) : store[k][i] # value
       THEN Append(store[k], value) ELSE store[k]]

\* mutant: the entry is created but the value is never pushed
PushNothing(store, key, value) == store

\* Vec::push on the entry of key
Push(store, key, value) ==
  [k \in DOMAIN store |-> IF k = key THEN Append(store[k], value) ELSE store[k]]

\* mutant: the key stays, with an emptied sequence
RemoveKeepEntry(store, key) ==
  [k \in DOMAIN store |-> IF k = key THEN <<>> ELSE store[k]]

\* mutant: removing one key drops every key
RemoveEvery(store, key) ==
  IF key \in DOMAIN store THEN [k \in {} |-> <<>>] ELSE store

\* storage.remove(&key)
Remove(store, key) == [k \in DOMAIN store \ {key} |-> store[k]]

\* mutant: the sequences are emptied but the keys stay
ClearKeepKeys(store) == [k \in DOMAIN store |-> <<>>]

\* storage.clear()
Clear(store) == EmptyStore

\* the orders in which storage.iter() may visit the present keys
Orders(S) ==
  {o \in [1..Cardinality(S) -> S] : \A i, j \in 1..Cardinality(S) : o[i] = o[j] => i = j}

\* mutant: the enumeration stops one entry early
SnapshotSkipLast(store, order) ==
  [i \in 1..(Len(order) - 1) |-> <<order[i], store[order[i]]>>]

\* storage.iter().map(|entry| (*entry.key(), entry.value().clone())).collect()
Snapshot(store, order) == [i \in 1..Len(order) |-> <<order[i], store[order[i]]>>]

\* mutant: GET looks the key up with entry().or_insert_with(), creating it
ApplyCommandGetInserts(store, cmd, order) ==
  IF cmd.op = OP_SET
    THEN [store |-> Push(OrInsertEmpty(store, cmd.key), cmd.key, cmd.value),
          resp |-> StatusReply(STATUS_OK)]
  ELSE IF cmd.op = OP_GET
    THEN [store |-> OrInsertEmpty(store, cmd.key),
          resp |-> IF cmd.key \in DOMAIN store THEN Found(store[cmd.key]) ELSE NotFound]
  ELSE IF cmd.op = OP_DELETE_BY_KEY
    THEN [store |-> Remove(store, cmd.key),
          resp |-> IF cmd.key \in DOMAIN store
                     THEN StatusReply(STATUS_OK)
                     ELSE StatusReply(STATUS_NOT_FOUND)]
  ELSE IF cmd.op = OP_DELETE_ALL
    THEN [store |-> Clear(store), resp |-> StatusReply(STATUS_OK)]
  ELSE [store |-> store, resp |-> ListAllResponse(Snapshot(store, order))]

\* mutant: SET is acknowledged without being applied
ApplyCommandSetUnapplied(store, cmd, order) ==
  IF cmd.op = OP_SET
    THEN [store |-> store, resp |-> StatusReply(STATUS_OK)]
  ELSE IF cmd.op = OP_GET
    THEN [store |-> store,
          resp |-> IF cmd.key \in DOMAIN store THEN Found(store[cmd.key]) ELSE NotFound]
  ELSE IF cmd.op = OP_DELETE_BY_KEY
    THEN [store |-> Remove(store, cmd.key),
          resp |-> IF cmd.key \in DOMAIN store
                     THEN StatusReply(STATUS_OK)
                     ELSE StatusReply(STATUS_NOT_FOUND)]
  ELSE IF cmd.op = OP_DELETE_ALL
    THEN [store |-> Clear(store), resp |-> StatusReply(STATUS_OK)]
  ELSE [store |-> store, resp |-> ListAllResponse(Snapshot(store, order))]

\* one arm of command_processor's match: the store afterwards and the value
\* sent on respond_to; order is the iteration order of the map
ApplyCommand(store, cmd, order) ==
  IF cmd.op = OP_SET
    THEN [store |-> Push(OrInsertEmpty(store, cmd.key), cmd.key, cmd.value),
          resp |-> StatusReply(STATUS_OK)]
  ELSE IF cmd.op = OP_GET
    THEN [store |-> store,
          resp |-> IF cmd.key \in DOMAIN store THEN Found(store[cmd.key]) ELSE NotFound]
  ELSE IF cmd.op = OP_DELETE_BY_KEY
    THEN [store |-> Remove(store, cmd.key),
          resp |-> IF cmd.key \in DOMAIN store
                     THEN StatusReply(STATUS_OK)
                     ELSE StatusReply(STATUS_NOT_FOUND)]
  ELSE IF cmd.op = OP_DELETE_ALL
    THEN [store |-> Clear(store), resp |-> StatusReply(STATUS_OK)]
  ELSE [store |-> store, resp |-> ListAllResponse(Snapshot(store, order))]

(* ---------------- response encoding ------------------------------------ *)
\* mutant: the values are written last to first
ValueChunksReversed(values) ==
  [i \in 1..Len(values) |-> U32LE(values[Len(values) + 1 - i])]

\* one element per socket write (write_u8 / write_u32_le), in order
ValueChunks(values) == [i \in 1..Len(values) |-> U32LE(values[i])]

RECURSIVE EntryChunks(_)
EntryChunks(entries) ==
  IF entries = <<>> THEN <<>>
  ELSE <<<<Head(entries)[1]>>, U32LE(Len(Head(entries)[2]))>>
         \o ValueChunks(Head(entries)[2]) \o EntryChunks(Tail(entries))

Encode(resp) ==
  IF resp.kind = "status" THEN <<<<resp.status>>>>
  ELSE IF resp.kind = "get"
    THEN IF resp.found
           THEN <<<<STATUS_OK>>, U32LE(Len(resp.values))>> \o ValueChunks(resp.values)
           ELSE <<<<STATUS_NOT_FOUND>>>>
  ELSE <<<<STATUS_OK>>, U32LE(Len(resp.entries))>> \o EntryChunks(resp.entries)

(* ---------------- state ------------------------------------------------ *)
VARIABLES
  storage,     \* the DashMap owned by the actor
  queue,       \* the mpsc channel: Commands enqueued and not yet received
  current,     \* the Command the actor has received and not yet applied
  hstate,      \* per connection: "none", "read", "await", "write", "closed"
  clientOpen,  \* per connection: the client end of the socket is open
  inbuf,       \* per connection: whole frames written by the client, unread
  rx,          \* per connection: id of the oneshot channel awaited, 0 if none
  reply,       \* per connection: value sent on the awaited oneshot channel
  pending,     \* per connection: socket writes of the response still to do
  out,         \* per connection: the responses written, each a byte sequence
  nresp,       \* per connection: responses written completely
  issued,      \* history: per connection, the frames the client wrote
  arrival,     \* history: the Commands in the order they were enqueued
  log,         \* history: the Commands applied, with store before/after, reply
               \* and whether the issuing client was still connected
  sentAt       \* history: per frame of a stamping client, the number of whole
               \* responses each connection had received when it was sent

vars == <<storage, queue, current, hstate, clientOpen, inbuf, rx, reply,
          pending, out, nresp, issued, arrival, log, sentAt>>

RECURSIVE SumLen(_, _)
SumLen(f, S) ==
  IF S = {} THEN 0
  ELSE LET x == CHOOSE y \in S : TRUE IN Len(f[x]) + SumLen(f, S \ {x})

\* main: empty store, channel created, actor spawned, no connection yet
Init ==
  /\ storage = EmptyStore
  /\ queue = <<>>
  /\ current = NoCmd
  /\ hstate = [c \in Conns |-> "none"]
  /\ clientOpen = [c \in Conns |-> FALSE]
  /\ inbuf = [c \in Conns |-> <<>>]
  /\ rx = [c \in Conns |-> 0]
  /\ reply = [c \in Conns |-> NoReply]
  /\ pending = [c \in Conns |-> <<>>]
  /\ out = [c \in Conns |-> <<>>]
  /\ nresp = [c \in Conns |-> 0]
  /\ issued = [c \in Conns |-> <<>>]
  /\ arrival = <<>>
  /\ log = <<>>
  /\ sentAt = [c \in Conns |-> <<>>]

(* ---------------- clients and the accept loop -------------------------- *)
\* a client connects and main's loop accepts it and spawns its handler
Accept(c) ==
  /\ hstate[c] = "none"
  /\ hstate' = [hstate EXCEPT ![c] = "read"]
  /\ clientOpen' = [clientOpen EXCEPT ![c] = TRUE]
  /\ UNCHANGED <<storage, queue, current, inbuf, rx, reply, pending, out, nresp,
                 issued, arrival, log, sentAt>>

\* the client writes one request frame (it need not wait for earlier replies)
ClientSend(c, f) ==
  /\ clientOpen[c]
  /\ SumLen(issued, Conns) < MaxFrames
  /\ inbuf' = [inbuf EXCEPT ![c] = Append(@, f)]
  /\ issued' = [issued EXCEPT ![c] = Append(@, f)]
  /\ UNCHANGED <<storage, queue, current, hstate, clientOpen, rx, reply, pending,
                 out, nresp, arrival, log, sentAt>>

\* the client closes its end of the socket
ClientClose(c) ==
  /\ clientOpen[c]
  /\ clientOpen' = [clientOpen EXCEPT ![c] = FALSE]
  /\ UNCHANGED <<storage, queue, current, hstate, inbuf, rx, reply, pending, out,
                 nresp, issued, arrival, log, sentAt>>

(* ---------------- Connection Handler ----------------------------------- *)
\* mutant: the handler also reads while it awaits a reply
CanReadAhead(c) == hstate[c] \in {"read", "await"}

\* the handler is at socket.read_exact, at the top of its loop
CanRead(c) == hstate[c] = "read"

\* the frame read_exact delivers and what is left in the socket
NextFrame(buf) == [frame |-> Head(buf), rest |-> Tail(buf)]

\* read_exact succeeds; the frame is decoded; a recognised opcode enqueues one
\* Command with a fresh oneshot channel and the handler awaits rx, any other
\* opcode goes straight to writing BAD_REQUEST
HandlerRead(c) ==
  /\ CanRead(c)
  /\ inbuf[c] # <<>>
  /\ LET r == NextFrame(inbuf[c])
         op == r.frame[1]
         key == r.frame[2]
         value == FromLE(SubSeq(r.frame, 3, 6))
         cmd == MakeCommand(op, key, value, c, Len(arrival) + 1)
     IN /\ inbuf' = [inbuf EXCEPT ![c] = r.rest]
        /\ IF Recognised(op)
             THEN /\ queue' = Append(queue, cmd)
                  /\ arrival' = Append(arrival, cmd)
                  /\ rx' = [rx EXCEPT ![c] = cmd.id]
                  /\ hstate' = [hstate EXCEPT ![c] = "await"]
                  /\ UNCHANGED <<pending, out>>
             ELSE /\ pending' = [pending EXCEPT ![c] = <<<<STATUS_BAD_REQUEST>>>>]
                  /\ out' = [out EXCEPT ![c] = Append(@, <<>>)]
                  /\ hstate' = [hstate EXCEPT ![c] = "write"]
                  /\ UNCHANGED <<queue, arrival, rx>>
  /\ UNCHANGED <<storage, current, clientOpen, reply, nresp, issued, log, sentAt>>

\* mutant: a handler that leaves its loop takes the queued Commands with it
HandlerReadFailDropsQueue(c) ==
  /\ CanRead(c)
  /\ inbuf[c] = <<>>
  /\ ~clientOpen[c]
  /\ hstate' = [hstate EXCEPT ![c] = "closed"]
  /\ queue' = <<>>
  /\ UNCHANGED <<storage, current, clientOpen, inbuf, rx, reply, pending,
                 out, nresp, issued, arrival, log, sentAt>>

\* read_exact fails: the client closed and no whole frame is left
HandlerReadFail(c) ==
  /\ CanRead(c)
  /\ inbuf[c] = <<>>
  /\ ~clientOpen[c]
  /\ hstate' = [hstate EXCEPT ![c] = "closed"]
  /\ UNCHANGED <<storage, queue, current, clientOpen, inbuf, rx, reply, pending,
                 out, nresp, issued, arrival, log, sentAt>>

\* rx.await returns Ok(response): the handler starts writing the response
HandlerReply(c) ==
  /\ hstate[c] = "await"
  /\ reply[c] # NoReply
  /\ pending' = [pending EXCEPT ![c] = Encode(reply[c])]
  /\ out' = [out EXCEPT ![c] = Append(@, <<>>)]
  /\ reply' = [reply EXCEPT ![c] = NoReply]
  /\ rx' = [rx EXCEPT ![c] = 0]
  /\ hstate' = [hstate EXCEPT ![c] = "write"]
  /\ UNCHANGED <<storage, queue, current, clientOpen, inbuf, nresp, issued,
                 arrival, log, sentAt>>

\* one socket write of the response; it fails once the client has closed, and
\* the handler then leaves its loop; after the last write it reads again
HandlerWrite(c) ==
  /\ hstate[c] = "write"
  /\ IF clientOpen[c]
       THEN /\ out' = [out EXCEPT ![c][Len(out[c])] = @ \o Head(pending[c])]
            /\ pending' = [pending EXCEPT ![c] = Tail(@)]
            /\ hstate' = [hstate EXCEPT ![c] =
                            IF Tail(pending[c]) = <<>> THEN "read" ELSE "write"]
            /\ nresp' = [nresp EXCEPT ![c] =
                           IF Tail(pending[c]) = <<>> THEN @ + 1 ELSE @]
       ELSE /\ hstate' = [hstate EXCEPT ![c] = "closed"]
            /\ pending' = [pending EXCEPT ![c] = <<>>]
            /\ UNCHANGED <<out, nresp>>
  /\ UNCHANGED <<storage, queue, current, clientOpen, inbuf, rx, reply, issued,
                 arrival, log, sentAt>>

(* ---------------- Store Actor ------------------------------------------ *)
\* mutant: the newest Command is received first
RecvNewest(q) == [cmd |-> q[Len(q)], rest |-> SubSeq(q, 1, Len(q) - 1)]

\* mutant: receiving one Command loses the ones queued behind it
RecvDropRest(q) == [cmd |-> Head(q), rest |-> <<>>]

\* receiver.recv(): the oldest Command of the channel and what stays queued
Recv(q) == [cmd |-> Head(q), rest |-> Tail(q)]

\* receiver.recv().await returns Some(command)
ActorRecv ==
  /\ current = NoCmd
  /\ queue # <<>>
  /\ current' = Recv(queue).cmd
  /\ queue' = Recv(queue).rest
  /\ UNCHANGED <<storage, hstate, clientOpen, inbuf, rx, reply, pending, out,
                 nresp, issued, arrival, log, sentAt>>

\* mutant: a Command whose client has disconnected is dropped unapplied
ActorApplyIfOpen ==
  /\ current # NoCmd
  /\ IF clientOpen[current.conn]
       THEN \E order \in Orders(DOMAIN storage) :
              LET r == ApplyCommand(storage, current, order)
              IN /\ storage' = r.store
                 /\ reply' = [reply EXCEPT ![current.conn] = r.resp]
                 /\ log' = Append(log, [cmd |-> current, before |-> storage,
                                        after |-> r.store, resp |-> r.resp,
                                        open |-> TRUE])
       ELSE UNCHANGED <<storage, reply, log>>
  /\ current' = NoCmd
  /\ UNCHANGED <<queue, hstate, clientOpen, inbuf, rx, pending, out, nresp,
                 issued, arrival, sentAt>>

\* the match arm runs to completion: the store is updated and the result is
\* sent on respond_to (dropped if that receiver is gone)
ActorApply ==
  /\ current # NoCmd
  /\ \E order \in Orders(DOMAIN storage) :
       LET r == ApplyCommand(storage, current, order)
       IN /\ storage' = r.store
          /\ reply' = IF rx[current.conn] = current.id
                        THEN [reply EXCEPT ![current.conn] = r.resp]
                        ELSE reply
          /\ log' = Append(log, [cmd |-> current, before |-> storage,
                                 after |-> r.store, resp |-> r.resp,
                                 open |-> clientOpen[current.conn]])
  /\ current' = NoCmd
  /\ UNCHANGED <<queue, hstate, clientOpen, inbuf, rx, pending, out, nresp,
                 issued, arrival, sentAt>>

(* ---------------- specification ---------------------------------------- *)
Next ==
  \/ \E c \in Conns : Accept(c)
  \/ \E c \in Conns : \E f \in ClientFrames : ClientSend(c, f)
  \/ \E c \in Conns : ClientClose(c)
  \/ \E c \in Conns : HandlerRead(c)
  \/ \E c \in Conns : HandlerReadFail(c)
  \/ \E c \in Conns : HandlerReply(c)
  \/ \E c \in Conns : HandlerWrite(c)
  \/ ActorRecv
  \/ ActorApply

Spec == Init /\ [][Next]_vars

(* ---------------- the benchmark's one-at-a-time client ------------------- *)
\* the connection of the client that sends one operation at a time
SeqConn == CHOOSE c \in Conns : \A d \in Conns : c <= d

\* like send_op, the client writes a frame only when it has read the whole
\* response to every frame it wrote before
SeqSend(f) ==
  /\ clientOpen[SeqConn]
  /\ nresp[SeqConn] = Len(issued[SeqConn])
  /\ Len(issued[SeqConn]) < MaxSeqFrames
  /\ inbuf' = [inbuf EXCEPT ![SeqConn] = Append(@, f)]
  /\ issued' = [issued EXCEPT ![SeqConn] = Append(@, f)]
  /\ UNCHANGED <<storage, queue, current, hstate, clientOpen, rx, reply, pending,
                 out, nresp, arrival, log, sentAt>>

NextSeq ==
  \/ Accept(SeqConn)
  \/ \E f \in ClientFrames : SeqSend(f)
  \/ HandlerRead(SeqConn)
  \/ HandlerReply(SeqConn)
  \/ HandlerWrite(SeqConn)
  \/ ActorRecv
  \/ ActorApply

\* the server driven by one client that awaits each response
SpecSeq == Init /\ [][NextSeq]_vars

(* ---------------- a client that fills the ignored fields ----------------- *)
\* any 6 bytes with a known opcode: the key and value bytes are arbitrary
\* also where the operation does not use them
VarFrames ==
  {Frame(OP_SET, k, v) : k \in Keys, v \in Values}
    \cup {Frame(op, k, v) : op \in {OP_GET, OP_DELETE_BY_KEY}, k \in Keys,
                            v \in Values \cup {0}}
    \cup {Frame(op, k, v) : op \in {OP_DELETE_ALL, OP_LIST_ALL}, k \in Keys \cup {0},
                            v \in Values \cup {0}}

\* one frame at a time, like SeqSend, from VarFrames
VarSend(f) ==
  /\ clientOpen[SeqConn]
  /\ nresp[SeqConn] = Len(issued[SeqConn])
  /\ Len(issued[SeqConn]) < MaxVarFrames
  /\ inbuf' = [inbuf EXCEPT ![SeqConn] = Append(@, f)]
  /\ issued' = [issued EXCEPT ![SeqConn] = Append(@, f)]
  /\ UNCHANGED <<storage, queue, current, hstate, clientOpen, rx, reply, pending,
                 out, nresp, arrival, log, sentAt>>

NextIgn ==
  \/ Accept(SeqConn)
  \/ \E f \in VarFrames : VarSend(f)
  \/ HandlerRead(SeqConn)
  \/ HandlerReply(SeqConn)
  \/ HandlerWrite(SeqConn)
  \/ ActorRecv
  \/ ActorApply

SpecIgn == Init /\ [][NextIgn]_vars

(* ---------------- clients over a small alphabet of frames --------------- *)
\* one frame of each operation that touches the first key
SmallFrames ==
  LET k == CHOOSE x \in Keys : \A y \in Keys : x <= y
      v == CHOOSE x \in Values : \A y \in Values : x <= y
  IN {Frame(OP_SET, k, v), Frame(OP_GET, k, 0), Frame(OP_DELETE_BY_KEY, k, 0),
      Frame(OP_LIST_ALL, 0, 0)}

\* a client writes a frame on any open connection, as send_op does on the
\* connection it has just made; the history notes how many whole responses
\* each connection had received at that moment
StampedSend(c, f) ==
  /\ clientOpen[c]
  /\ SumLen(issued, Conns) < MaxSmallFrames
  /\ inbuf' = [inbuf EXCEPT ![c] = Append(@, f)]
  /\ issued' = [issued EXCEPT ![c] = Append(@, f)]
  /\ sentAt' = [sentAt EXCEPT ![c] = Append(@, nresp)]
  /\ UNCHANGED <<storage, queue, current, hstate, clientOpen, rx, reply, pending,
                 out, nresp, arrival, log>>

NextRT ==
  \/ \E c \in Conns : Accept(c)
  \/ \E c \in Conns : \E f \in SmallFrames : StampedSend(c, f)
  \/ \E c \in Conns : HandlerRead(c)
  \/ \E c \in Conns : HandlerReply(c)
  \/ \E c \in Conns : HandlerWrite(c)
  \/ ActorRecv
  \/ ActorApply

\* the server driven by concurrent clients whose sends are stamped
SpecRT == Init /\ [][NextRT]_vars

(* ---------------- fair scheduling with clients that may disconnect ------ *)
NextLive ==
  \/ \E c \in Conns : Accept(c)
  \/ \E c \in Conns : \E f \in SmallFrames : ClientSend(c, f)
  \/ \E c \in Conns : ClientClose(c)
  \/ \E c \in Conns : HandlerRead(c)
  \/ \E c \in Conns : HandlerReadFail(c)
  \/ \E c \in Conns : HandlerReply(c)
  \/ \E c \in Conns : HandlerWrite(c)
  \/ ActorRecv
  \/ ActorApply

\* the runtime runs every task that is ready: the actor when a Command is
\* queued, a handler when its socket or its reply channel is ready; clients
\* are free to send, to stay silent and to disconnect
SpecLive ==
  /\ Init
  /\ [][NextLive]_vars
  /\ WF_vars(ActorRecv)
  /\ WF_vars(ActorApply)
  /\ \A c \in Conns :
       /\ WF_vars(HandlerRead(c))
       /\ WF_vars(HandlerReadFail(c))
       /\ WF_vars(HandlerReply(c))
       /\ WF_vars(HandlerWrite(c))

(* ---------------- the benchmark's concurrent_test ----------------------- *)
\* worker c - 1 of concurrent_test with ops_per_worker = 1: its key and value
WorkerKey(c) == (c - 1) % 256
WorkerValue(c) == (c - 1) * 1000

\* the worker sends SET(key, value) and, once it has read a status for it,
\* GET(key)
WorkerSend(c) ==
  /\ clientOpen[c]
  /\ Len(issued[c]) < 2
  /\ Len(issued[c]) = 1 => (out[c] # <<>> /\ out[c][1] # <<>>)
  /\ LET f == IF issued[c] = <<>>
                THEN Frame(OP_SET, WorkerKey(c), WorkerValue(c))
                ELSE Frame(OP_GET, WorkerKey(c), 0)
     IN /\ inbuf' = [inbuf EXCEPT ![c] = Append(@, f)]
        /\ issued' = [issued EXCEPT ![c] = Append(@, f)]
  /\ UNCHANGED <<storage, queue, current, hstate, clientOpen, rx, reply, pending,
                 out, nresp, arrival, log, sentAt>>

NextConc ==
  \/ \E c \in Conns : Accept(c)
  \/ \E c \in Conns : WorkerSend(c)
  \/ \E c \in Conns : HandlerRead(c)
  \/ \E c \in Conns : HandlerReply(c)
  \/ \E c \in Conns : HandlerWrite(c)
  \/ ActorRecv
  \/ ActorApply

\* every task of the runtime that can run is eventually run
SpecConc ==
  /\ Init
  /\ [][NextConc]_vars
  /\ WF_vars(ActorRecv)
  /\ WF_vars(ActorApply)
  /\ \A c \in Conns :
       /\ WF_vars(Accept(c))
       /\ WF_vars(WorkerSend(c))
       /\ WF_vars(HandlerRead(c))
       /\ WF_vars(HandlerReply(c))
       /\ WF_vars(HandlerWrite(c))

TypeOK ==
  /\ DOMAIN storage \subseteq Keys
  /\ \A c \in Conns : hstate[c] \in {"none", "read", "await", "write", "closed"}
  /\ Len(arrival) <= MaxFrames

(* ---------------- derived views of the histories ----------------------- *)
\* the Commands enqueued and not yet applied, oldest first
Outstanding == IF current = NoCmd THEN queue ELSE <<current>> \o queue

\* frames of connection c that read_exact has delivered so far
NumRead(c) == Len(issued[c]) - Len(inbuf[c])

\* among the first n frames of c, those with a recognised opcode
RecognisedFrames(c, n) ==
  SelectSeq(SubSeq(issued[c], 1, n), LAMBDA f : Recognised(f[1]))

\* positions in arrival of the Commands of connection c, in enqueue order
ConnIdx(c) ==
  SelectSeq([i \in 1..Len(arrival) |-> i], LAMBDA i : arrival[i].conn = c)

\* position in arrival of the Command made from the n-th frame of c
ArrivalOf(c, n) == ConnIdx(c)[Len(RecognisedFrames(c, n))]

SeqOf(store, k) == IF k \in DOMAIN store THEN store[k] ELSE <<>>

TotalValues(store) == SumLen(store, DOMAIN store)

(* ---------------- sequential reference store --------------------------- *)
\* position of the last DELETE_BY_KEY(k) or DELETE_ALL in h, 0 if none
LastWipe(k, h) ==
  LET W == {i \in 1..Len(h) :
              \/ h[i].op = OP_DELETE_ALL
              \/ h[i].op = OP_DELETE_BY_KEY /\ h[i].key = k}
  IN IF W = {} THEN 0 ELSE CHOOSE i \in W : \A j \in W : j <= i

\* the values SET on k after the last wipe of k, in order
RefValues(k, h) ==
  LET s == SelectSeq(SubSeq(h, LastWipe(k, h) + 1, Len(h)),
                     LAMBDA c : c.op = OP_SET /\ c.key = k)
  IN [i \in 1..Len(s) |-> s[i].value]

RefPresent(h) == {k \in Keys : RefValues(k, h) # <<>>}

\* resp is what the reference store answers to cmd after the commands of h
RefMatches(cmd, resp, h) ==
  IF cmd.op = OP_GET
    THEN resp = IF cmd.key \in RefPresent(h)
                  THEN Found(RefValues(cmd.key, h)) ELSE NotFound
  ELSE IF cmd.op = OP_DELETE_BY_KEY
    THEN resp = IF cmd.key \in RefPresent(h)
                  THEN StatusReply(STATUS_OK) ELSE StatusReply(STATUS_NOT_FOUND)
  ELSE IF cmd.op = OP_LIST_ALL
    THEN /\ resp.kind = "list"
         /\ Len(resp.entries) = Cardinality(RefPresent(h))
         /\ {resp.entries[i] : i \in 1..Len(resp.entries)}
              = {<<k, RefValues(k, h)>> : k \in RefPresent(h)}
  ELSE resp = StatusReply(STATUS_OK)

\* k is untouched by the log entries strictly between i and j
Untouched(k, i, j) ==
  \A m \in (i + 1)..(j - 1) :
    /\ log[m].cmd.op # OP_DELETE_ALL
    /\ ~(log[m].cmd.op \in {OP_SET, OP_DELETE_BY_KEY} /\ log[m].cmd.key = k)

(* ---------------- C1 ---------------------------------------------------- *)
\* C1: the actor applies Commands in the order they were enqueued, one at a
\* time: the applied Commands are a prefix of the arrival sequence, the one
\* being applied (if any) is the next of it and the queue holds the rest in
\* order; when a Command is taken from the queue every earlier one has had
\* its whole effect (the store is the result of the log, each entry starting
\* from the store the previous one left).
C1_AppliedInArrivalOrder ==
  /\ Len(log) + Len(Outstanding) = Len(arrival)
  /\ \A i \in 1..Len(log) : log[i].cmd = arrival[i]
  /\ \A j \in 1..Len(Outstanding) : Outstanding[j] = arrival[Len(log) + j]
  /\ \A i \in 1..Len(log) :
       log[i].before = IF i = 1 THEN EmptyStore ELSE log[i - 1].after
  /\ storage = IF log = <<>> THEN EmptyStore ELSE log[Len(log)].after

\* one Command applied, another connection's Command being applied, a third queued
C1_Witness ==
  /\ Len(log) >= 1
  /\ current # NoCmd
  /\ current.conn # log[1].cmd.conn
  /\ queue # <<>>

(* ---------------- C2 ---------------------------------------------------- *)
\* C2: every reply (as computed by the actor and as delivered to the waiting
\* handler) equals what the sequential reference store answers after exactly
\* the Commands that arrived before the replied one.
C2_RepliesMatchReference ==
  /\ \A i \in 1..Len(log) :
       RefMatches(arrival[i], log[i].resp, SubSeq(arrival, 1, i - 1))
  /\ \A c \in Conns :
       reply[c] # NoReply =>
         /\ rx[c] \in 1..Len(log)
         /\ arrival[rx[c]].conn = c
         /\ RefMatches(arrival[rx[c]], reply[c], SubSeq(arrival, 1, rx[c] - 1))

\* two SETs of one key from two connections, then a GET that sees both
C2_Witness ==
  /\ Len(log) = 3
  /\ log[1].cmd.conn # log[2].cmd.conn
  /\ log[3].cmd.op = OP_GET
  /\ log[3].resp.found
  /\ Len(log[3].resp.values) = 2
  /\ reply[log[3].cmd.conn] = log[3].resp

(* ---------------- C3 ---------------------------------------------------- *)
\* C3: a GET(k) that follows a SET(k, v), with no other SET or deletion of k
\* between them, answers OK with k's sequence before the SET plus v at the
\* end: last element v, one longer, earlier elements unchanged.
C3_SetThenGet ==
  \A i, j \in 1..Len(log) :
    (/\ i < j
     /\ log[i].cmd.op = OP_SET
     /\ log[j].cmd.op = OP_GET
     /\ log[j].cmd.key = log[i].cmd.key
     /\ Untouched(log[i].cmd.key, i, j))
    => LET old == SeqOf(log[i].before, log[i].cmd.key)
           got == log[j].resp
       IN /\ got.kind = "get"
          /\ got.found
          /\ Len(got.values) = Len(old) + 1
          /\ got.values[Len(got.values)] = log[i].cmd.value
          /\ SubSeq(got.values, 1, Len(old)) = old

\* a SET on a key that already holds a different value, then a GET of it
C3_Witness ==
  \E i \in 1..Len(log) :
    /\ i < Len(log)
    /\ log[i].cmd.op = OP_SET
    /\ log[i].cmd.key \in DOMAIN log[i].before
    /\ log[i].before[log[i].cmd.key][1] # log[i].cmd.value
    /\ log[i + 1].cmd.op = OP_GET
    /\ log[i + 1].cmd.key = log[i].cmd.key

(* ---------------- C4 ---------------------------------------------------- *)
\* C4: a GET(k) applied while k is absent (never SET, or wiped by a
\* DELETE_BY_KEY(k) or DELETE_ALL since its last SET) answers NOT_FOUND, and
\* the response written for it is the single byte 0.
C4_GetAbsentNotFound ==
  /\ \A i \in 1..Len(log) :
       (/\ log[i].cmd.op = OP_GET
        /\ \/ log[i].cmd.key \notin DOMAIN log[i].before
           \/ RefValues(log[i].cmd.key, SubSeq(arrival, 1, i - 1)) = <<>>)
       => log[i].resp = NotFound
  /\ \A c \in Conns : \A n \in 1..nresp[c] :
       (/\ issued[c][n][1] = OP_GET
        /\ log[ArrivalOf(c, n)].resp = NotFound)
       => out[c][n] = <<STATUS_NOT_FOUND>>

\* SET(k), a deletion, then GET(k) answered completely on the socket
C4_Witness ==
  \E c \in Conns : \E n \in 1..nresp[c] :
    /\ issued[c][n][1] = OP_GET
    /\ out[c][n] = <<STATUS_NOT_FOUND>>
    /\ \E i \in 1..Len(log) :
         /\ i < ArrivalOf(c, n)
         /\ log[i].cmd.op = OP_SET
         /\ log[i].cmd.key = issued[c][n][2]

(* ---------------- C5 ---------------------------------------------------- *)
\* C5: DELETE_BY_KEY(k) on a present key answers OK, removes k and leaves
\* every other key with its sequence; on an absent key it answers
\* NOT_FOUND and leaves the store as it was.
C5_DeleteByKey ==
  \A i \in 1..Len(log) :
    log[i].cmd.op = OP_DELETE_BY_KEY =>
      LET k == log[i].cmd.key
          b == log[i].before
          a == log[i].after
      IN IF k \in DOMAIN b
           THEN /\ log[i].resp = StatusReply(STATUS_OK)
                /\ DOMAIN a = DOMAIN b \ {k}
                /\ \A x \in DOMAIN a : a[x] = b[x]
           ELSE /\ log[i].resp = StatusReply(STATUS_NOT_FOUND)
                /\ a = b

\* a present key deleted while another key is present
C5_Witness ==
  \E i \in 1..Len(log) :
    /\ log[i].cmd.op = OP_DELETE_BY_KEY
    /\ log[i].cmd.key \in DOMAIN log[i].before
    /\ DOMAIN log[i].before # {log[i].cmd.key}
    /\ log[i].resp = StatusReply(STATUS_OK)

(* ---------------- C6 ---------------------------------------------------- *)
\* C6: DELETE_ALL always answers OK and leaves the store empty, also on an
\* empty store; a LIST_ALL applied after it with no SET in between answers
\* no entries, written as OK with key_count 0.
C6_DeleteAll ==
  /\ \A i \in 1..Len(log) :
       log[i].cmd.op = OP_DELETE_ALL =>
         /\ log[i].resp = StatusReply(STATUS_OK)
         /\ log[i].after = EmptyStore
         /\ \A j \in (i + 1)..Len(log) :
              (/\ log[j].cmd.op = OP_LIST_ALL
               /\ \A m \in (i + 1)..(j - 1) : log[m].cmd.op # OP_SET)
              => log[j].resp = ListAllResponse(<<>>)
  /\ \A c \in Conns : \A n \in 1..nresp[c] :
       (/\ issued[c][n][1] = OP_LIST_ALL
        /\ log[ArrivalOf(c, n)].resp = ListAllResponse(<<>>))
       => out[c][n] = <<STATUS_OK, 0, 0, 0, 0>>

\* DELETE_ALL empties a non-empty store and a later LIST_ALL is answered
C6_Witness ==
  \E i \in 1..Len(log) :
    /\ i < Len(log)
    /\ log[i].cmd.op = OP_DELETE_ALL
    /\ log[i].before # EmptyStore
    /\ log[i + 1].cmd.op = OP_LIST_ALL
    /\ nresp[log[i + 1].cmd.conn] >= 1
    /\ rx[log[i + 1].cmd.conn] = 0
    /\ hstate[log[i + 1].cmd.conn] = "read"

(* ---------------- C7 ---------------------------------------------------- *)
\* C7: LIST_ALL answers a list whose entries are exactly the store at the
\* instant it is applied: one entry per present key, with the key's whole
\* sequence in insertion order, no entry for an absent key, and as many
\* entries as present keys, whatever other connections have enqueued.
C7_ListAllSnapshot ==
  \A i \in 1..Len(log) :
    log[i].cmd.op = OP_LIST_ALL =>
      LET b == log[i].before
          e == log[i].resp.entries
      IN /\ log[i].resp.kind = "list"
         /\ log[i].after = b
         /\ Len(e) = Cardinality(DOMAIN b)
         /\ \A n \in 1..Len(e) : e[n][1] \in DOMAIN b
         /\ \A k \in DOMAIN b :
              /\ Cardinality({n \in 1..Len(e) : e[n][1] = k}) = 1
              /\ \A n \in 1..Len(e) :
                   e[n][1] = k =>
                     /\ e[n][2] = b[k]
                     /\ e[n][2] = RefValues(k, SubSeq(arrival, 1, i - 1))

\* LIST_ALL applied to a non-empty store while another connection's Command
\* is already queued behind it
C7_Witness ==
  /\ Len(log) >= 1
  /\ log[Len(log)].cmd.op = OP_LIST_ALL
  /\ Len(log[Len(log)].resp.entries) >= 1
  /\ queue # <<>>
  /\ Head(queue).conn # log[Len(log)].cmd.conn
  /\ current = NoCmd

(* ---------------- C8 ---------------------------------------------------- *)
\* number of SETs among the first n log entries
SetsApplied(n) == Cardinality({i \in 1..n : log[i].cmd.op = OP_SET})

\* values removed by the deletions among the first n log entries
RECURSIVE ValuesRemoved(_)
ValuesRemoved(n) ==
  IF n = 0 THEN 0
  ELSE ValuesRemoved(n - 1)
         + (IF log[n].cmd.op = OP_DELETE_BY_KEY
              THEN Len(SeqOf(log[n].before, log[n].cmd.key))
            ELSE IF log[n].cmd.op = OP_DELETE_ALL
              THEN TotalValues(log[n].before)
            ELSE 0)

RECURSIVE EntriesTotal(_)
EntriesTotal(e) == IF e = <<>> THEN 0 ELSE Len(Head(e)[2]) + EntriesTotal(Tail(e))

\* C8: the values a LIST_ALL reports, over all keys, number the SETs applied
\* before it minus the values removed by deletions before it; with no
\* Command in flight this is all SETs ever enqueued minus all values removed.
C8_ValueCount ==
  /\ \A i \in 1..Len(log) :
       log[i].cmd.op = OP_LIST_ALL =>
         EntriesTotal(log[i].resp.entries) + ValuesRemoved(i - 1) = SetsApplied(i - 1)
  /\ Outstanding = <<>> =>
       TotalValues(storage) + ValuesRemoved(Len(log))
         = Cardinality({i \in 1..Len(arrival) : arrival[i].op = OP_SET})

\* nothing in flight; two SETs, a DELETE_BY_KEY that removed one value, then a
\* LIST_ALL that reports the one value left
C8_Witness ==
  /\ Outstanding = <<>>
  /\ Len(log) = 4
  /\ log[1].cmd.op = OP_SET
  /\ log[2].cmd.op = OP_SET
  /\ log[3].cmd.op = OP_DELETE_BY_KEY
  /\ ValuesRemoved(3) = 1
  /\ log[4].cmd.op = OP_LIST_ALL
  /\ EntriesTotal(log[4].resp.entries) = 1

(* ---------------- C9 ---------------------------------------------------- *)
\* every worker has read OK for its SET and, for its GET, OK with exactly the
\* one value it SET
AllWorkersServed ==
  \A c \in Conns :
    /\ nresp[c] = 2
    /\ out[c] = << <<STATUS_OK>>,
                   <<STATUS_OK>> \o U32LE(1) \o U32LE(WorkerValue(c)) >>

\* C9: with one worker per connection, each doing SET on its own key and
\* then GET of that key, every fair run reaches the state where every SET
\* was answered OK and every GET returned exactly the value SET for its key.
C9_ConcurrentSets == <>AllWorkersServed

\* all served, and the first two SETs were both enqueued before any GET
C9_Witness ==
  /\ AllWorkersServed
  /\ arrival[1].op = OP_SET
  /\ arrival[2].op = OP_SET

(* ---------------- C10 --------------------------------------------------- *)
\* C10: a handler has at most one Command outstanding and then awaits its
\* reply; it reads a frame only when every frame read before has its
\* response written; every recognised frame read made exactly one Command,
\* the decoding of that frame; and the Commands of one connection are
\* enqueued and applied in the order the client wrote their frames.
C10_OneOutstandingPerConnection ==
  \A c \in Conns :
    LET mine == SelectSeq(Outstanding, LAMBDA x : x.conn = c)
        rec == RecognisedFrames(c, NumRead(c))
        idx == ConnIdx(c)
        done == SelectSeq(log, LAMBDA e : e.cmd.conn = c)
    IN /\ Len(mine) <= 1
       /\ Len(mine) = 1 => hstate[c] = "await" /\ reply[c] = NoReply /\ rx[c] = mine[1].id
       /\ nresp[c] <= NumRead(c)
       /\ NumRead(c) <= nresp[c] + 1
       /\ hstate[c] = "read" => NumRead(c) = nresp[c]
       /\ Len(idx) = Len(rec)
       /\ \A j \in 1..Len(idx) :
            /\ arrival[idx[j]].op = rec[j][1]
            /\ arrival[idx[j]].op \in {OP_SET, OP_GET, OP_DELETE_BY_KEY}
                 => arrival[idx[j]].key = rec[j][2]
            /\ arrival[idx[j]].op = OP_SET
                 => U32LE(arrival[idx[j]].value) = SubSeq(rec[j], 3, 6)
       /\ Len(done) <= Len(idx)
       /\ \A j \in 1..Len(done) : done[j].cmd = arrival[idx[j]]

\* a connection answered once, awaiting its second reply, with a third frame
\* already written by the client and left unread
C10_Witness ==
  \E c \in Conns :
    /\ hstate[c] = "await"
    /\ nresp[c] = 1
    /\ inbuf[c] # <<>>

(* ---------------- views used by C11..C20 -------------------------------- *)
\* a frame whose opcode is none of the five operations
UnknownFrame(f) == f[1] \notin OP_SET..OP_LIST_ALL

\* among the first n frames of c, those whose opcode is one of the five
KnownCount(c, n) ==
  Len(SelectSeq(SubSeq(issued[c], 1, n), LAMBDA f : ~UnknownFrame(f)))

\* the frame from which the Command arrival[i] was made
FrameOfArrival(i) ==
  LET c == arrival[i].conn
      j == Len(SelectSeq(SubSeq(arrival, 1, i), LAMBDA x : x.conn = c))
  IN SelectSeq(issued[c], LAMBDA f : ~UnknownFrame(f))[j]

\* the bytes of a response, its socket writes put end to end
RECURSIVE Flatten(_)
Flatten(chunks) ==
  IF chunks = <<>> THEN <<>> ELSE Head(chunks) \o Flatten(Tail(chunks))

(* ---------------- C11 --------------------------------------------------- *)
C11_State ==
  \A c \in Conns : \A n \in 1..NumRead(c) :
    UnknownFrame(issued[c][n]) =>
      /\ Len(ConnIdx(c)) = KnownCount(c, NumRead(c))
      /\ n <= nresp[c] => out[c][n] = <<STATUS_BAD_REQUEST>>
      /\ (n <= nresp[c] /\ n = NumRead(c)) => (hstate[c] = "read" \/ ~clientOpen[c])
      /\ \A m \in (n + 1)..nresp[c] :
           ~UnknownFrame(issued[c][m]) =>
             out[c][m] = Flatten(Encode(log[ConnIdx(c)[KnownCount(c, m)]].resp))

C11_Step ==
  \A c \in Conns :
    (/\ inbuf[c] # <<>>
     /\ UnknownFrame(Head(inbuf[c]))
     /\ Len(inbuf'[c]) < Len(inbuf[c]))
    => /\ storage' = storage
       /\ queue' = queue
       /\ current' = current
       /\ arrival' = arrival
       /\ pending'[c] = <<<<STATUS_BAD_REQUEST>>>>

\* C11: a frame with an opcode outside 1..5 makes no Command and leaves the
\* store and the queue as they are; its response is the single byte 2; the
\* handler then reads again, and a later valid frame of the connection gets
\* the response of its own Command.
C11_UnknownOpcode == []C11_State /\ [][C11_Step]_vars

\* an unknown opcode answered with 2, then a SET on the same connection
\* answered OK and stored
C11_Witness ==
  \E c \in Conns : \E n \in 1..nresp[c] :
    /\ UnknownFrame(issued[c][n])
    /\ out[c][n] = <<STATUS_BAD_REQUEST>>
    /\ n + 1 <= nresp[c]
    /\ issued[c][n + 1][1] = OP_SET
    /\ out[c][n + 1] = <<STATUS_OK>>
    /\ issued[c][n + 1][2] \in DOMAIN storage

(* ---------------- C13 --------------------------------------------------- *)
\* positions in arrival, before i, of the SETs of k since k's last wipe
SetsOf(k, i) ==
  LET h == SubSeq(arrival, 1, i - 1)
  IN SelectSeq([j \in 1..(i - 1) |-> j],
               LAMBDA j : /\ j > LastWipe(k, h)
                          /\ arrival[j].op = OP_SET
                          /\ arrival[j].key = k)

\* C13: the OK response to GET(k) is the byte 1, a count and the values; the
\* count read little-endian is the number of 4-byte values that follow and
\* the length of k's sequence, and each value's 4 bytes are those of the SET
\* frame that stored it, in insertion order.
C13_GetResponseBytes ==
  \A c \in Conns : \A n \in 1..nresp[c] :
    (issued[c][n][1] = OP_GET /\ log[ArrivalOf(c, n)].resp.found) =>
      LET i == ArrivalOf(c, n)
          k == issued[c][n][2]
          o == out[c][n]
          sets == SetsOf(k, i)
          cnt == FromLE(SubSeq(o, 2, 5))
      IN /\ o[1] = STATUS_OK
         /\ Len(o) = 5 + 4 * cnt
         /\ cnt = Len(log[i].before[k])
         /\ cnt = Len(sets)
         /\ \A t \in 1..cnt :
              SubSeq(o, 2 + 4 * t, 5 + 4 * t) = SubSeq(FrameOfArrival(sets[t]), 3, 6)

\* SET(k, 10); SET(k, 300); GET(k) answered with count 2 and 10, 300
C13_Witness ==
  \E c \in Conns : \E n \in 1..nresp[c] :
    /\ issued[c][n][1] = OP_GET
    /\ out[c][n] = <<STATUS_OK>> \o <<2, 0, 0, 0>> \o <<10, 0, 0, 0>> \o <<44, 1, 0, 0>>

(* ---------------- C14 --------------------------------------------------- *)
C14_Step ==
  \A k \in Keys :
    LET old == SeqOf(storage, k)
        new == SeqOf(storage', k)
        applied == log' # log
    IN IF applied /\ current.op = OP_SET /\ current.key = k
         THEN k \in DOMAIN storage' /\ new = Append(old, current.value)
       ELSE IF /\ applied
               /\ \/ current.op = OP_DELETE_ALL
                  \/ current.op = OP_DELETE_BY_KEY /\ current.key = k
         THEN k \notin DOMAIN storage'
       ELSE (k \in DOMAIN storage) = (k \in DOMAIN storage') /\ old = new

\* C14: applying a SET appends exactly its value at the end of its key's
\* sequence (earlier elements kept, duplicates kept); applying DELETE_BY_KEY
\* of a key or DELETE_ALL removes the key; every other step, and every other
\* key, leaves the sequence as it is.
C14_SequenceChanges == [][C14_Step]_vars

\* a key holding the same value twice and then another one, in SET order
C14_Witness ==
  \E k \in DOMAIN storage :
    /\ Len(storage[k]) = 3
    /\ storage[k][1] = storage[k][2]
    /\ storage[k][3] # storage[k][1]
    /\ Len(log) = 3
    /\ log[3].cmd.value = storage[k][3]

(* ---------------- C15 --------------------------------------------------- *)
\* C15: applying GET or LIST_ALL leaves the store exactly as it was; a GET of
\* an absent key creates no entry.
C15_ReadsDoNotMutate ==
  \A i \in 1..Len(log) :
    log[i].cmd.op \in {OP_GET, OP_LIST_ALL} =>
      /\ DOMAIN log[i].after = DOMAIN log[i].before
      /\ \A k \in DOMAIN log[i].before : log[i].after[k] = log[i].before[k]
      /\ i < Len(log) => log[i + 1].before = log[i].before
      /\ i = Len(log) => storage = log[i].before

\* GET of an absent key on a non-empty store, then LIST_ALL with one entry
C15_Witness ==
  \E i \in 1..Len(log) :
    /\ i < Len(log)
    /\ log[i].cmd.op = OP_GET
    /\ log[i].cmd.key \notin DOMAIN log[i].before
    /\ log[i].before # EmptyStore
    /\ log[i + 1].cmd.op = OP_LIST_ALL
    /\ Len(log[i + 1].resp.entries) = 1

(* ---------------- C17 --------------------------------------------------- *)
\* C17: every present key has a non-empty sequence, in the store and in every
\* store an applied Command left; an OK reply to GET never has count 0 and no
\* LIST_ALL entry has value_count 0, in the reply and on the socket.
C17_NoEmptySequence ==
  /\ \A k \in DOMAIN storage : storage[k] # <<>>
  /\ \A i \in 1..Len(log) :
       /\ \A k \in DOMAIN log[i].after : log[i].after[k] # <<>>
       /\ (log[i].cmd.op = OP_GET /\ log[i].resp.found) => Len(log[i].resp.values) > 0
       /\ log[i].cmd.op = OP_LIST_ALL =>
            \A n \in 1..Len(log[i].resp.entries) : Len(log[i].resp.entries[n][2]) > 0
  /\ \A c \in Conns : \A n \in 1..nresp[c] :
       (issued[c][n][1] = OP_GET /\ out[c][n][1] = STATUS_OK) =>
         FromLE(SubSeq(out[c][n], 2, 5)) > 0

\* a key deleted from a two-key store, then a GET that finds the other key
C17_Witness ==
  \E i \in 1..Len(log) :
    /\ i < Len(log)
    /\ log[i].cmd.op = OP_DELETE_BY_KEY
    /\ log[i].resp = StatusReply(STATUS_OK)
    /\ log[i].after # EmptyStore
    /\ log[i + 1].cmd.op = OP_GET
    /\ log[i + 1].resp.found

(* ---------------- C19 --------------------------------------------------- *)
\* a frame with the fields its operation ignores set to 0
NormCmd(f) ==
  [op |-> f[1],
   key |-> IF f[1] \in {OP_SET, OP_GET, OP_DELETE_BY_KEY} THEN f[2] ELSE 0,
   value |-> IF f[1] = OP_SET THEN FromLE(SubSeq(f, 3, 6)) ELSE 0]

\* the first n frames of c, normalised
NormHistory(c, n) == [i \in 1..n |-> NormCmd(issued[c][i])]

\* the byte responses the reference store may give to cmd after h (LIST_ALL
\* in any order of the keys)
RefResponses(cmd, h) ==
  IF cmd.op = OP_GET
    THEN {Flatten(Encode(IF cmd.key \in RefPresent(h)
                           THEN Found(RefValues(cmd.key, h)) ELSE NotFound))}
  ELSE IF cmd.op = OP_DELETE_BY_KEY
    THEN {<<IF cmd.key \in RefPresent(h) THEN STATUS_OK ELSE STATUS_NOT_FOUND>>}
  ELSE IF cmd.op = OP_LIST_ALL
    THEN {Flatten(Encode(ListAllResponse(
             [i \in 1..Len(o) |-> <<o[i], RefValues(o[i], h)>>]))) :
            o \in Orders(RefPresent(h))}
  ELSE {<<STATUS_OK>>}

\* C19: the Commands, the responses and the store are determined by the
\* frames with their ignored fields set to 0 (value for GET, DELETE_BY_KEY,
\* DELETE_ALL, LIST_ALL; key for DELETE_ALL, LIST_ALL), so two runs that
\* differ only in those bytes give the same responses (LIST_ALL up to the
\* order of the keys) and the same store.
C19_IgnoredFields ==
  /\ \A i \in 1..Len(arrival) :
       LET n == NormCmd(FrameOfArrival(i))
       IN /\ arrival[i].op = n.op
          /\ arrival[i].key = n.key
          /\ arrival[i].value = n.value
  /\ \A n \in 1..nresp[SeqConn] :
       out[SeqConn][n] \in RefResponses(NormCmd(issued[SeqConn][n]),
                                        NormHistory(SeqConn, n - 1))
  /\ Outstanding = <<>> =>
       LET h == NormHistory(SeqConn, NumRead(SeqConn))
       IN /\ DOMAIN storage = RefPresent(h)
          /\ \A k \in DOMAIN storage : storage[k] = RefValues(k, h)

\* SET on one key, then a DELETE_ALL frame whose key byte names another key
\* and whose value bytes are not 0, answered OK with the store left empty
C19_Witness ==
  /\ nresp[SeqConn] = 2
  /\ issued[SeqConn][1][1] = OP_SET
  /\ issued[SeqConn][2][1] = OP_DELETE_ALL
  /\ issued[SeqConn][2][2] \in Keys \ {issued[SeqConn][1][2]}
  /\ FromLE(SubSeq(issued[SeqConn][2], 3, 6)) # 0
  /\ out[SeqConn][2] = <<STATUS_OK>>
  /\ storage = EmptyStore

(* ---------------- C18: real-time order across connections ---------------- *)
\* position in log of the Command with the given id, 0 while it is not applied
LogPos(id) ==
  LET P == {p \in 1..Len(log) : log[p].cmd.id = id}
  IN IF P = {} THEN 0 ELSE CHOOSE p \in P : TRUE

\* the Commands of the first n log entries
LogCmds(n) == [i \in 1..n |-> log[i].cmd]

\* C18: if the whole response to command A (frame m of connection c) had
\* been written to its client when command B (frame n of connection d, the
\* same or another connection) was sent, then A is applied by the time B is
\* enqueued, A is applied before B, and B's reply is the reference answer
\* after a history that contains A: a SET(k, v) answered before a GET(k) was
\* sent is in the GET's values unless k was removed in between.
C18_RealTimeOrder ==
  \A d \in Conns : \A n \in 1..NumRead(d) :
    Recognised(issued[d][n][1]) =>
      \A c \in Conns : \A m \in 1..sentAt[d][n][c] :
        Recognised(issued[c][m][1]) =>
          LET pa == LogPos(ArrivalOf(c, m))
              pb == LogPos(ArrivalOf(d, n))
          IN /\ pa # 0
             /\ pb # 0 =>
                  /\ pa < pb
                  /\ RefMatches(log[pb].cmd, log[pb].resp, LogCmds(pb - 1))
                  /\ ( /\ log[pa].cmd.op = OP_SET
                       /\ log[pb].cmd.op = OP_GET
                       /\ log[pb].cmd.key = log[pa].cmd.key
                       /\ \A x \in (pa + 1)..(pb - 1) :
                            /\ log[x].cmd.op # OP_DELETE_ALL
                            /\ log[x].cmd.op # OP_DELETE_BY_KEY )
                      => /\ log[pb].resp.found
                         /\ \E i \in 1..Len(log[pb].resp.values) :
                              log[pb].resp.values[i] = log[pa].cmd.value

\* a SET answered on one connection before a GET of the same key is sent on
\* another connection, and the GET's reply, already written, has the value
C18_Witness ==
  \E c \in Conns : \E d \in Conns \ {c} :
    /\ issued[c] # <<>> /\ issued[d] # <<>>
    /\ issued[c][1][1] = OP_SET
    /\ issued[d][1][1] = OP_GET
    /\ sentAt[d][1][c] >= 1
    /\ nresp[d] >= 1
    /\ out[d][1][1] = STATUS_OK

(* ---------------- C20: no Command is starved ----------------------------- *)
\* every Command enqueued is applied, being applied or still queued
NoneLost ==
  \A n \in 1..Len(arrival) :
    \/ n <= Len(log)
    \/ current = arrival[n]
    \/ \E i \in 1..Len(queue) : queue[i] = arrival[n]

\* C20: no enqueued Command is ever lost and, under fair scheduling of the
\* actor and the handlers, the n-th Command enqueued is eventually the n-th
\* Command applied, and a handler that awaits a reply eventually receives it
\* and starts writing, whatever the other connections enqueue meanwhile.
C20_NoStarvation ==
  /\ []NoneLost
  /\ \A n \in 1..MaxFrames :
       (Len(arrival) >= n) ~> (Len(log) >= n /\ log[n].cmd = arrival[n])
  /\ \A c \in Conns :
       (hstate[c] = "await") ~> (hstate[c] = "write" /\ rx[c] = 0)

\* two connections had Commands in flight together: the one applied second
\* has its reply at its handler while the other handler has yet to take its
\* reply
C20_Witness ==
  \E c \in Conns : \E d \in Conns \ {c} :
    /\ Len(log) >= 2
    /\ log[1].cmd.conn = d /\ log[2].cmd.conn = c
    /\ hstate[d] = "await" /\ reply[d] # NoReply
    /\ hstate[c] = "write" /\ rx[c] = 0

(* ---------------- C16: a disconnected client's Command ------------------- *)
\* the actor is done with a Command only by applying it, and an applying
\* step computes the store from the Command alone, whether or not the
\* client is still there
C16_Step ==
  /\ (current # NoCmd /\ current' # current) => log' # log
  /\ log' # log =>
       /\ current # NoCmd
       /\ \E order \in Orders(DOMAIN storage) :
            storage' = ApplyCommand(storage, current, order).store
       /\ Len(log') = Len(log) + 1
       /\ log'[Len(log')].cmd = current
       /\ log'[Len(log')].after = storage'
       /\ log'[Len(log')].open = clientOpen[current.conn]

\* C16: a Command that is enqueued is applied to the Store also when its
\* client has disconnected before the reply is ready, the actor then takes
\* the next queued Command, and a handler of another connection that awaits
\* a reply still gets it.
C16_AppliedAfterDisconnect ==
  /\ [][C16_Step]_vars
  /\ \A n \in 1..MaxFrames :
       (Len(arrival) >= n /\ ~clientOpen[arrival[n].conn])
         ~> (Len(log) >= n /\ log[n].cmd = arrival[n])
  /\ \A c \in Conns : \A d \in Conns \ {c} :
       (hstate[d] = "await" /\ ~clientOpen[c] /\ hstate[c] = "await")
         ~> (hstate[d] = "write")

\* a SET whose client had disconnected changed the store, and a GET of
\* another connection applied after it was answered with the value
C16_Witness ==
  \E i \in 1..Len(log) : \E j \in 1..Len(log) :
    /\ i < j
    /\ ~log[i].open
    /\ log[i].cmd.op = OP_SET
    /\ log[i].after # log[i].before
    /\ log[j].cmd.conn # log[i].cmd.conn
    /\ log[j].cmd.op = OP_GET
    /\ log[j].resp = Found(<<log[i].cmd.value>>)
    /\ nresp[log[j].cmd.conn] >= 1

(* ---------------- C12: the terminal state Closed ------------------------- *)
\* the Commands of connection c enqueued so far
EnqueuedBy(c) == Len(SelectSeq(arrival, LAMBDA x : x.conn = c))

\* a closed handler stays closed, enqueues and writes nothing; a closing
\* step touches neither the store, the queue, the actor nor another handler
C12_Step ==
  \A c \in Conns :
    /\ hstate[c] = "closed" =>
         /\ hstate'[c] = "closed"
         /\ out'[c] = out[c]
         /\ nresp'[c] = nresp[c]
         /\ EnqueuedBy(c)' = EnqueuedBy(c)
    /\ (hstate[c] # "closed" /\ hstate'[c] = "closed") =>
         /\ UNCHANGED <<storage, queue, current, log, arrival, reply, rx>>
         /\ \A d \in Conns \ {c} : hstate'[d] = hstate[d] /\ out'[d] = out[d]

====
